---- MODULE Spec2Model ----
(***************************************************************************)
(* Model of panthyr_ftp/p_ftp.py: the pFTP session wrapper around one      *)
(* ftplib.FTP_TLS connection, together with the FTP server and the local   *)
(* file system it talks to.                                                *)
(*                                                                         *)
(* Strings are sequences of one-character strings, so that re.sub,         *)
(* str.split, str.lower and os.path.basename are computed character by     *)
(* character.  A remote path is a sequence of names from the server root.  *)
(***************************************************************************)
EXTENDS Integers, Sequences, FiniteSets, TLC

VARIABLES
    obj,      \* "none" | "made": whether a pFTP object exists (self.ftp is set)
    conn,     \* state of self.ftp: "none" | "open" | "auth" | "closed"
    scope,    \* the with-statement: "none" | "failed" | "body" | "left"
    quits,    \* number of invocations of pFTP.quit() so far
    ncalls,   \* number of method calls made on the session so far
    year,     \* the calendar year the local clock shows
    wd,       \* the server's working directory of this session
    dirs,     \* directories existing on the server (paths; the root is implicit)
    files,    \* regular files existing on the server (paths)
    last      \* what the last call was given, did and raised

vars == <<obj, conn, scope, quits, ncalls, year, wd, dirs, files, last>>

(* ----------------------------- bounds ---------------------------------- *)

MaxCalls == 1      \* method calls per session
MaxDirLen == 2     \* length of the directory names over DirChars given to cwd

(* --------------------------- characters -------------------------------- *)

DigitChars == <<"0", "1", "2", "3", "4", "5", "6", "7", "8", "9">>
LowerChars == <<"a", "b", "c", "d", "e", "f", "g", "h", "i", "j", "k", "l", "m",
                "n", "o", "p", "q", "r", "s", "t", "u", "v", "w", "x", "y", "z">>
UpperChars == <<"A", "B", "C", "D", "E", "F", "G", "H", "I", "J", "K", "L", "M",
                "N", "O", "P", "Q", "R", "S", "T", "U", "V", "W", "X", "Y", "Z">>

Range(s) == {s[i] : i \in DOMAIN s}

\* the None of Python, where a string is expected
None == <<"<None>">>

\* the character class [0-9a-zA-Z_] of the pattern in cwd
InClass(c) == c \in Range(DigitChars) \cup Range(LowerChars) \cup Range(UpperChars) \cup {"_"}

RECURSIVE SkipOutside(_)
\* the rest of s after the run of characters outside the class it starts with
SkipOutside(s) ==
    IF s = <<>> \/ InClass(Head(s)) THEN s ELSE SkipOutside(Tail(s))

RECURSIVE ReSubEach(_)
\* re.sub('[^0-9a-zA-Z_]', '_', s): one '_' for each character outside the class
ReSubEach(s) ==
    IF s = <<>> THEN <<>>
    ELSE <<IF InClass(Head(s)) THEN Head(s) ELSE "_">> \o ReSubEach(Tail(s))

RECURSIVE ReSub(_)
\* re.sub('[^0-9a-zA-Z_]+', '_', s): each maximal run outside the class becomes one '_'
ReSub(s) ==
    IF s = <<>> THEN <<>>
    ELSE IF InClass(Head(s)) THEN <<Head(s)>> \o ReSub(Tail(s))
    ELSE <<"_">> \o ReSub(SkipOutside(Tail(s)))

\* str.lower() of one character
LowerChar(c) ==
    IF \E i \in DOMAIN UpperChars : UpperChars[i] = c
    THEN LowerChars[CHOOSE i \in DOMAIN UpperChars : UpperChars[i] = c]
    ELSE c

\* str.lower()
Lower(s) == [i \in DOMAIN s |-> LowerChar(s[i])]

RECURSIVE Split(_)
\* str.split(): the maximal runs of non-blank characters
Split(s) ==
    IF s = <<>> THEN <<>>
    ELSE IF Head(s) = " " THEN Split(Tail(s))
    ELSE LET n == IF \E i \in DOMAIN s : s[i] = " "
                  THEN (CHOOSE i \in DOMAIN s :
                            s[i] = " " /\ \A j \in 1..(i - 1) : s[j] # " ") - 1
                  ELSE Len(s)
         IN  <<SubSeq(s, 1, n)>> \o Split(SubSeq(s, n + 1, Len(s)))

RECURSIVE Join(_)
\* ' '.join(tokens)
Join(tokens) ==
    IF tokens = <<>> THEN <<>>
    ELSE IF Len(tokens) = 1 THEN tokens[1]
    ELSE tokens[1] \o <<" ">> \o Join(Tail(tokens))

\* os.path.basename(path): what follows the last '/'
Basename(path) ==
    IF \E i \in DOMAIN path : path[i] = "/"
    THEN LET k == CHOOSE i \in DOMAIN path :
                      path[i] = "/" /\ \A j \in (i + 1)..Len(path) : path[j] # "/"
         IN  SubSeq(path, k + 1, Len(path))
    ELSE path

\* current_year_str(): strftime('%Y') of the clock's year
current_year_str(y) ==
    <<DigitChars[((y \div 1000) % 10) + 1], DigitChars[((y \div 100) % 10) + 1],
      DigitChars[((y \div 10) % 10) + 1], DigitChars[(y % 10) + 1]>>

RECURSIVE SetToSeq(_)
SetToSeq(S) ==
    IF S = {} THEN <<>>
    ELSE LET x == CHOOSE x \in S : TRUE IN <<x>> \o SetToSeq(S \ {x})

RECURSIVE SeqsUpTo(_, _)
\* all sequences over A of length at most n
SeqsUpTo(A, n) ==
    IF n = 0 THEN {<<>>}
    ELSE LET shorter == SeqsUpTo(A, n - 1)
         IN  shorter \cup {Append(s, c) : s \in shorter, c \in A}

(* ------------------- the run of one method call ------------------------ *)

\* The state a method call works on: the server's side (wd, dirs, files), the FTP
\* commands sent so far with the server's verdict on each (calls), which command
\* the server will reject for reasons of its own (rej; 0: none), the exception
\* raised so far (exc), its argument (excArg) and the value last returned (out).
Start(rej) ==
    [wd |-> wd, dirs |-> dirs, files |-> files, calls |-> <<>>, rej |-> rej,
     exc |-> "none", excArg |-> "", out |-> <<>>]

\* The value of a method's run.  Only({e(s1) : s1 \in {v}}) is e with s1 the value of
\* v, computed once: an assignment to a local variable.
Only(S) == CHOOSE r \in S : TRUE

\* a statement of a method raised: the statements after it are skipped
Raised(st) == st.exc # "none"

\* the server rejects the command about to be sent (a 5xx reply)
Rejected(st) == Len(st.calls) + 1 = st.rej

\* ftplib sends a command and reads the reply: a 5xx reply raises error_perm
Send(st, cmd, arg, ok) ==
    [st EXCEPT !.calls = Append(@, [cmd |-> cmd, arg |-> arg, ok |-> ok]),
               !.exc = IF ok THEN "none" ELSE "error_perm"]

\* the names of the entries of S that lie directly in directory dir
ChildNames(S, dir) ==
    {p[Len(p)] : p \in {q \in S : Len(q) = Len(dir) + 1 /\ SubSeq(q, 1, Len(dir)) = dir}}

\* one line of a long listing, "drwx 1 u g 0 Jan 1 0:00 name"
ListLine(type, name) ==
    <<type, "r", "w", "x", " ", "1", " ", "u", " ", "g", " ", "0", " ",
      "J", "a", "n", " ", "1", " ", "0", ":", "0", "0", " ">> \o name

\* self.ftp.retrlines('LIST ' + dir, callback): the lines the server lists
ftp_retrlines(st, dir) ==
    LET ok == ~Rejected(st)
        target == IF dir = <<".">> THEN st.wd ELSE st.wd \o <<dir>>
        lines == SetToSeq({ListLine("d", n) : n \in ChildNames(st.dirs, target)}
                          \cup {ListLine("-", n) : n \in ChildNames(st.files, target)})
    IN  [Send(st, "LIST", dir, ok) EXCEPT !.out = IF ok THEN lines ELSE <<>>]

\* ' '.join(line.split()[8:])
EntryName(line) ==
    Only({IF Len(t) < 9 THEN <<>> ELSE Join(SubSeq(t, 9, Len(t))) : t \in {Split(line)}})

\* the names of the listed lines that are directories (isdir) or are not
EntryNames(lines, isdir) ==
    LET Wanted(line) == (line[1] = "d") = isdir
    IN  Only({[i \in DOMAIN sel |-> EntryName(sel[i])] : sel \in {SelectSeq(lines, Wanted)}})

\* pFTP.get_contents(dir): <<directory names, file names>> of dir
get_contents(st, dir) ==
    Only({IF Raised(s1) THEN s1
          ELSE [s1 EXCEPT !.out = <<EntryNames(s1.out, TRUE), EntryNames(s1.out, FALSE)>>] :
          s1 \in {ftp_retrlines(st, dir)}})

\* self.ftp.mkd(dir): the server refuses an empty or an existing name
ftp_mkd(st, dir) ==
    LET path == st.wd \o <<dir>>
        ok == ~Rejected(st) /\ dir # <<>> /\ path \notin (st.dirs \cup st.files)
    IN  [Send(st, "MKD", dir, ok) EXCEPT !.dirs = IF ok THEN @ \cup {path} ELSE @]

\* self.ftp.cwd(dirname): ftplib sends 'CWD .' for the empty name
ftp_cwd(st, dirname) ==
    LET path == IF dirname = <<>> THEN st.wd ELSE st.wd \o <<dirname>>
        ok == ~Rejected(st) /\ (path = <<>> \/ path \in st.dirs)
    IN  [Send(st, "CWD", dirname, ok) EXCEPT !.wd = IF ok THEN path ELSE @]

\* pFTP._prep_dir(dir)
prep_dir(st, dir) ==
    Only({IF Raised(s1) THEN s1
          ELSE LET dir_lst == Append(s1.out[1], <<".">>)
               IN  IF dir \notin Range(dir_lst) THEN ftp_mkd(s1, dir) ELSE s1 :
          s1 \in {get_contents(st, <<".">>)}})

\* a sanitization whose pattern lacks the '+'
SanitizeEach(target_dir) == ReSubEach(target_dir)

\* target_dir_checked of pFTP.cwd
target_dir_checked(target_dir) == ReSub(target_dir)

\* cwd's try block entering the base directory alone
cwd_try_no_year(st, checked, y) ==
    Only({IF Raised(s1) THEN s1 ELSE ftp_cwd(s1, checked) : s1 \in {prep_dir(st, checked)}})

\* the try block of pFTP.cwd
cwd_try(st, checked, y) ==
    LET year_str == current_year_str(y)
    IN  Only({IF Raised(s3) THEN s3 ELSE ftp_cwd(s3, year_str) :
              s3 \in {IF Raised(s2) THEN s2 ELSE prep_dir(s2, year_str) :
                      s2 \in {IF Raised(s1) THEN s1 ELSE ftp_cwd(s1, checked) :
                              s1 \in {prep_dir(st, checked)}}}})

\* an except clause that also goes back to the directory the call started in
cwd_except_rollback(st, wd0) ==
    IF st.exc = "error_perm" THEN [st EXCEPT !.exc = "FTPError", !.wd = wd0] ELSE st

\* the except clause of pFTP.cwd
cwd_except(st, wd0) ==
    IF st.exc = "error_perm" THEN [st EXCEPT !.exc = "FTPError"] ELSE st

\* pFTP.cwd(target_dir) when the clock shows year y
cwd(st, target_dir, y) ==
    cwd_except(cwd_try(st, target_dir_checked(target_dir), y), st.wd)

(* ------------------------------ upload --------------------------------- *)

\* the regular files of the local file system
LocalFiles == {<<"a">>, <<"d", "/", "A">>}

\* os.path.isfile(file)
isfile(file) == file \in LocalFiles

\* self.ftp.storbinary('STOR ' + name, fp): the server's reply is resp; stored tells
\* whether a server that replies with success has really kept the file
ftp_storbinary(st, name, stored, resp) ==
    LET path == st.wd \o <<name>>
        ok == ~Rejected(st) /\ path \notin st.dirs
    IN  [Send(st, "STOR", name, ok) EXCEPT
            !.files = IF ok /\ stored THEN @ \cup {path} ELSE @,
            !.out = IF ok THEN resp ELSE ""]

\* a comparison of the names as they are, without lower()
file_exists_exact(st, file) ==
    Only({IF Raised(s1) THEN s1
          ELSE [s1 EXCEPT !.out = \E i \in DOMAIN s1.out[2] : file = s1.out[2][i]] :
          s1 \in {get_contents(st, <<".">>)}})

\* pFTP._file_exists(file)
file_exists(st, file) ==
    Only({IF Raised(s1) THEN s1
          ELSE [s1 EXCEPT !.out = \E i \in DOMAIN s1.out[2] :
                                      Lower(file) = Lower(s1.out[2][i])] :
          s1 \in {get_contents(st, <<".">>)}})

\* the post-upload check of upload_file raising without the transfer's response
verify_upload_no_arg(st, target_filename, ret_ftp) ==
    Only({IF Raised(s1) THEN s1
          ELSE IF ~s1.out THEN [s1 EXCEPT !.exc = "FTPUploadFailed", !.excArg = ""]
          ELSE s1 :
          s1 \in {file_exists(st, target_filename)}})

\* the post-upload check of upload_file
verify_upload(st, target_filename, ret_ftp) ==
    Only({IF Raised(s1) THEN s1
          ELSE IF ~s1.out THEN [s1 EXCEPT !.exc = "FTPUploadFailed", !.excArg = ret_ftp]
          ELSE s1 :
          s1 \in {file_exists(st, target_filename)}})

\* an upload_file that looks at the server before it looks at the local file
upload_precheck_late(st, file, overwrite, target) ==
    Only({IF ~isfile(file) THEN [s1 EXCEPT !.exc = "ValueError"]
          ELSE IF Raised(s1) THEN s1
          ELSE IF ~overwrite /\ s1.out THEN [s1 EXCEPT !.exc = "FTPFileExistsOnServer"]
          ELSE s1 :
          s1 \in {IF ~overwrite THEN file_exists(st, target) ELSE st}})

\* upload_file up to the transfer: the local check and the overwrite check
upload_precheck(st, file, overwrite, target) ==
    IF ~isfile(file) THEN [st EXCEPT !.exc = "ValueError"]
    ELSE IF overwrite THEN st
    ELSE Only({IF Raised(s1) THEN s1
               ELSE IF s1.out THEN [s1 EXCEPT !.exc = "FTPFileExistsOnServer"]
               ELSE s1 :
               s1 \in {file_exists(st, target)}})

\* the remote filename upload_file resolves
resolved_filename(file, target_filename) ==
    IF target_filename = None \/ target_filename = <<>>
    THEN Basename(file) ELSE target_filename

\* pFTP.upload_file(file, overwrite, target_filename)
upload_file(st, file, overwrite, target_filename, stored, resp) ==
    LET target == resolved_filename(file, target_filename)
    IN  Only({IF Raised(s2) THEN s2 ELSE verify_upload(s2, target, s2.out) :
              s2 \in {IF Raised(s1) THEN s1 ELSE ftp_storbinary(s1, target, stored, resp) :
                      s1 \in {upload_precheck(st, file, overwrite, target)}}})

(* ------------------------------- size ---------------------------------- *)

RECURSIVE IntOf(_)
\* int(s) of a string of digits
IntOf(s) ==
    IF s = <<>> THEN 0
    ELSE 10 * IntOf(SubSeq(s, 1, Len(s) - 1))
         + (CHOOSE n \in 0..9 : DigitChars[n + 1] = s[Len(s)])

NoSize == [none |-> TRUE, val |-> 0]

\* self.ftp.voidcmd('TYPE I')
ftp_voidcmd(st, cmd) == Send(st, cmd, <<>>, ~Rejected(st))

\* self.ftp.size(file): the server answers with reply = [code, text]; ftplib raises
\* error_temp on 4xx and error_perm on 5xx, and returns int(text) on 213 alone
ftp_size(st, file, reply) ==
    LET class == reply.code \div 100
        ok == class \in {1, 2, 3}
        s1 == Send(st, "SIZE", file, ok)
    IN  IF class = 4 THEN [s1 EXCEPT !.exc = "error_temp"]
        ELSE IF class = 5 THEN [s1 EXCEPT !.exc = "error_perm"]
        ELSE IF reply.code = 213
             THEN [s1 EXCEPT !.out = [none |-> FALSE, val |-> IntOf(reply.text)]]
        ELSE [s1 EXCEPT !.out = NoSize]

\* pFTP.get_size(file)
get_size(st, file, reply) ==
    Only({IF Raised(s1) THEN s1 ELSE ftp_size(s1, file, reply) :
          s1 \in {ftp_voidcmd(st, "TYPE I")}})

\* pFTP.pwd(): the path the server reports
pwd(st) ==
    Only({IF Raised(s1) THEN s1 ELSE [s1 EXCEPT !.out = s1.wd] :
          s1 \in {Send(st, "PWD", <<>>, ~Rejected(st))}})

(* ----------------------- construction and scope ------------------------ *)

\* pFTP.__init__: how the connection attempt of ftplib.FTP_TLS(host, timeout) ends
init(how) ==
    IF how = "ok" THEN [obj |-> "made", conn |-> "open", exc |-> "none"]
    ELSE IF how = "gaierror"
         THEN [obj |-> "none", conn |-> "none", exc |-> "FTPCannotConnectError"]
    ELSE [obj |-> "none", conn |-> "none", exc |-> how]

\* the session as login and quit see it
Session == [conn |-> conn, quits |-> quits, exc |-> "none"]

\* pFTP.login(): reply is the server's answer to the credentials
login(c, reply) ==
    IF c.conn = "closed" THEN [c EXCEPT !.exc = "AttributeError"]
    ELSE IF reply = "ok" THEN [c EXCEPT !.conn = "auth"]
    ELSE IF reply = "error_perm" THEN [c EXCEPT !.exc = "FTPCannotLoginError"]
    ELSE [c EXCEPT !.exc = reply]

\* pFTP.quit(): ftplib closes the connection once the server has accepted QUIT
quit(c, reply) ==
    LET c1 == [c EXCEPT !.quits = @ + 1]
    IN  IF c.conn = "closed" THEN [c1 EXCEPT !.exc = "AttributeError"]
        ELSE IF reply = "ok" THEN [c1 EXCEPT !.conn = "closed"]
        ELSE [c1 EXCEPT !.exc = reply]

\* pFTP.__enter__
enter(c, reply) == login(c, reply)

\* an __exit__ that ends the session only when the body raised nothing
exit_unless_raised(c, raised, reply) ==
    IF raised THEN c ELSE quit(c, reply)

\* pFTP.__exit__(exc_type, exc_value, tb); raised: exc_type is not None
exit(c, raised, reply) == quit(c, reply)

(* ------------------------------ inputs --------------------------------- *)

\* the years the clock may show
Years == {2024, 2025}

\* the characters of the directory names tried exhaustively: one inside the class
\* of cwd's pattern and one outside it
DirChars == {"a", "-"}

\* further directory names: nothing to replace; a run of three characters to replace
ExtraDirArgs == {<<"Z", "9", "_">>, <<"a", "/", ".", " ", "b">>}

\* the directory names given to cwd
DirArgs == SeqsUpTo(DirChars, MaxDirLen) \cup ExtraDirArgs

\* the most FTP commands one call of cwd sends: LIST, MKD, CWD, twice
CwdCmds == 6

\* the most FTP commands one call of upload_file sends: LIST, STOR, LIST
UploadCmds == 3

\* the local paths given to upload_file: two regular files, a missing file, a directory
LocalPaths == LocalFiles \cup {<<"b">>, <<"d">>}

\* the target_filename arguments given to upload_file
TargetNames == {None, <<>>, <<"A">>, <<"a", " ", " ", "b">>}

\* the raw responses of the server to a transfer it reports as complete
StorResponses == {"226 Transfer complete", "250 OK"}

\* the answers of the server to SIZE: a size, a refusal, a busy server, an answer
\* that is no error and no size
SizeReplies ==
    {[code |-> 213, text |-> <<"1", "2">>], [code |-> 550, text |-> <<>>],
     [code |-> 450, text |-> <<>>], [code |-> 200, text |-> <<>>]}

\* how the connection attempt of the constructor may end
ConnectOutcomes == {"ok", "gaierror", "ConnectionRefusedError", "TimeoutError"}

\* the answers of the server to the credentials and to QUIT
Replies == {"ok", "error_perm", "error_temp"}

NameA == <<"a">>
NameU == <<"_">>
Name2025 == <<"2", "0", "2", "5">>

\* the remote trees a session of cwd calls may find
CwdRemotes ==
    {[dirs |-> {}, files |-> {}],
     [dirs |-> {<<NameA>>}, files |-> {<<NameU>>}],
     [dirs |-> {<<NameA>>, <<NameA, Name2025>>, <<NameA, NameA>>}, files |-> {}]}

\* the remote trees a session of uploads may find
UploadRemotes ==
    {[dirs |-> {}, files |-> {}],
     [dirs |-> {<<NameA>>}, files |-> {<<NameA, <<"A">>>>}],
     [dirs |-> {<<NameA>>}, files |-> {<<NameA, <<"a", " ", " ", "b">>>>}]}

(* ------------------------------ actions -------------------------------- *)

NoCall ==
    [op |-> "none", target_dir |-> <<>>, checked |-> <<>>, file |-> <<>>, overwrite |-> TRUE,
     target_filename |-> None, resp |-> "", reply |-> "", raised |-> FALSE,
     exc |-> "none", excArg |-> "", ret |-> NoSize, calls |-> <<>>,
     conn0 |-> "none", quits0 |-> 0, wd0 |-> <<>>, dirs0 |-> {}, files0 |-> {}]

\* what every call records of the state it started in
Call(op) ==
    [NoCall EXCEPT !.op = op, !.conn0 = conn, !.quits0 = quits, !.wd0 = wd,
                   !.dirs0 = dirs, !.files0 = files]

\* a method may be called on a logged-in session, inside or outside a with-block
CanCall == obj = "made" /\ conn = "auth" /\ scope \in {"none", "body"} /\ ncalls < MaxCalls

\* pFTP(server, user, pw)
Construct(how) ==
    /\ obj = "none"
    /\ LET r == init(how)
       IN  /\ obj' = r.obj
           /\ conn' = r.conn
           /\ last' = [Call("__init__") EXCEPT !.reply = how, !.exc = r.exc]
    /\ UNCHANGED <<scope, quits, ncalls, year, wd, dirs, files>>

\* session.login()
Login(reply) ==
    /\ obj = "made" /\ conn = "open" /\ scope = "none"
    /\ LET r == login(Session, reply)
       IN  /\ conn' = r.conn
           /\ last' = [Call("login") EXCEPT !.reply = reply, !.exc = r.exc]
    /\ UNCHANGED <<obj, scope, quits, ncalls, year, wd, dirs, files>>

\* "with session:": __enter__ runs; when it raises, the with statement runs neither
\* the body nor __exit__
Enter(reply) ==
    /\ obj = "made" /\ conn = "open" /\ scope = "none"
    /\ LET r == enter(Session, reply)
       IN  /\ conn' = r.conn
           /\ quits' = r.quits
           /\ scope' = IF r.exc = "none" THEN "body" ELSE "failed"
           /\ last' = [Call("__enter__") EXCEPT !.reply = reply, !.exc = r.exc]
    /\ UNCHANGED <<obj, ncalls, year, wd, dirs, files>>

\* the body of the with-block ends, normally or by an exception (raised), and the
\* with statement calls __exit__; what __exit__ raises replaces the body's exception
Leave(raised, reply) ==
    /\ scope = "body"
    /\ LET r == exit(Session, raised, reply)
       IN  /\ conn' = r.conn
           /\ quits' = r.quits
           /\ last' = [Call("__exit__") EXCEPT
                          !.reply = reply, !.raised = raised,
                          !.exc = IF r.exc # "none" THEN r.exc
                                  ELSE IF raised THEN "body" ELSE "none"]
    /\ scope' = "left"
    /\ UNCHANGED <<obj, ncalls, year, wd, dirs, files>>

\* session.quit()
Quit(reply) ==
    /\ obj = "made" /\ conn \in {"open", "auth"} /\ scope \in {"none", "body"}
    /\ ncalls < MaxCalls
    /\ LET r == quit(Session, reply)
       IN  /\ conn' = r.conn
           /\ quits' = r.quits
           /\ last' = [Call("quit") EXCEPT !.reply = reply, !.exc = r.exc]
    /\ ncalls' = ncalls + 1
    /\ UNCHANGED <<obj, scope, year, wd, dirs, files>>

\* session.pwd()
Pwd(rej) ==
    /\ CanCall
    /\ LET r == pwd(Start(rej))
       IN  last' = [Call("pwd") EXCEPT !.exc = r.exc, !.calls = r.calls]
    /\ ncalls' = ncalls + 1
    /\ UNCHANGED <<obj, conn, scope, quits, year, wd, dirs, files>>

\* session.get_size(file)
GetSize(file, rej, reply) ==
    /\ CanCall
    /\ LET r == get_size(Start(rej), file, reply)
       IN  last' = [Call("get_size") EXCEPT
                       !.file = file, !.reply = reply, !.exc = r.exc, !.calls = r.calls,
                       !.ret = IF r.exc = "none" THEN r.out ELSE NoSize]
    /\ ncalls' = ncalls + 1
    /\ UNCHANGED <<obj, conn, scope, quits, year, wd, dirs, files>>

\* session.cwd(target_dir)
Cwd(target_dir, rej) ==
    /\ CanCall
    /\ LET r == cwd(Start(rej), target_dir, year)
       IN  /\ wd' = r.wd
           /\ dirs' = r.dirs
           /\ files' = r.files
           /\ last' = [Call("cwd") EXCEPT
                          !.target_dir = target_dir,
                          !.checked = target_dir_checked(target_dir),
                          !.exc = r.exc, !.calls = r.calls]
    /\ ncalls' = ncalls + 1
    /\ UNCHANGED <<obj, conn, scope, quits, year>>

\* session.upload_file(file, overwrite, target_filename)
UploadFile(file, overwrite, target_filename, stored, resp, rej) ==
    /\ CanCall
    /\ LET r == upload_file(Start(rej), file, overwrite, target_filename, stored, resp)
       IN  /\ wd' = r.wd
           /\ dirs' = r.dirs
           /\ files' = r.files
           /\ last' = [Call("upload_file") EXCEPT
                          !.file = file, !.overwrite = overwrite,
                          !.target_filename = target_filename, !.resp = resp,
                          !.exc = r.exc, !.excArg = r.excArg, !.calls = r.calls]
    /\ ncalls' = ncalls + 1
    /\ UNCHANGED <<obj, conn, scope, quits, year>>

(* -------------------------- specifications ----------------------------- *)

\* one session from its construction to its end
Init ==
    /\ obj = "none" /\ conn = "none" /\ scope = "none"
    /\ quits = 0 /\ ncalls = 0
    /\ year \in Years
    /\ wd = <<>>
    /\ \E r \in UploadRemotes : dirs = r.dirs /\ files = r.files
    /\ last = NoCall

Next ==
    \/ \E how \in ConnectOutcomes : Construct(how)
    \/ \E reply \in Replies : Login(reply)
    \/ \E reply \in Replies : Enter(reply)
    \/ \E raised \in BOOLEAN, reply \in Replies : Leave(raised, reply)
    \/ \E reply \in Replies : Quit(reply)
    \/ \E rej \in 0..1 : Pwd(rej)
    \/ \E file \in {NameA, <<"A">>}, rej \in 0..1, reply \in SizeReplies :
           GetSize(file, rej, reply)

Spec == Init /\ [][Next]_vars

\* a logged-in session changing directories
InitCwd ==
    /\ obj = "made" /\ conn = "auth" /\ scope = "none"
    /\ quits = 0 /\ ncalls = 0
    /\ year \in Years
    /\ \E r \in CwdRemotes : dirs = r.dirs /\ files = r.files
    /\ wd \in {<<>>} \cup {p \in dirs : Len(p) = 1}
    /\ last = NoCall

NextCwd == \E target_dir \in DirArgs, rej \in 0..CwdCmds : Cwd(target_dir, rej)

SpecCwd == InitCwd /\ [][NextCwd]_vars

\* a logged-in session uploading files into its working directory
InitUpload ==
    /\ obj = "made" /\ conn = "auth" /\ scope = "none"
    /\ quits = 0 /\ ncalls = 0
    /\ year \in Years
    /\ \E r \in UploadRemotes : dirs = r.dirs /\ files = r.files
    /\ wd \in {p \in dirs : Len(p) = 1} \cup (IF dirs = {} THEN {<<>>} ELSE {})
    /\ last = NoCall

NextUpload ==
    \E file \in LocalPaths, overwrite \in BOOLEAN, target_filename \in TargetNames,
       stored \in BOOLEAN, resp \in StorResponses, rej \in 0..UploadCmds :
        UploadFile(file, overwrite, target_filename, stored, resp, rej)

SpecUpload == InitUpload /\ [][NextUpload]_vars

(* ------------------------------ claims --------------------------------- *)

\* the FTP commands of the last call that were sent as cmd
Sent(cmd) == {i \in DOMAIN last.calls : last.calls[i].cmd = cmd}

\* the number of CWD commands the server accepted before the i-th command
CwdsBefore(i) ==
    Cardinality({j \in 1..(i - 1) : last.calls[j].cmd = "CWD" /\ last.calls[j].ok})

\* the file names of directory dir as a listing shows them, blanks collapsed
ListedFiles(F, dir) == {Join(Split(n)) : n \in ChildNames(F, dir)}

\* a listing of directory dir of F shows a file named name, letter case ignored
Listed(F, dir, name) == \E n \in ListedFiles(F, dir) : Lower(n) = Lower(name)

\* the remote filename of the last upload_file
LastTarget == resolved_filename(last.file, last.target_filename)

\* C1: once the body of a with-block has been entered, leaving the block calls
\* quit() exactly once, whether the body ended normally or by an exception.
C1_ExitQuitsOnce ==
    scope = "left" => (last.op = "__exit__" /\ quits = last.quits0 + 1)

\* a with-block left by an exception, and one quit() since the body ended
C1_Witness ==
    scope = "left" /\ last.op = "__exit__" /\ last.raised /\ quits = last.quits0 + 1

\* C2: when login fails while a with-block is entered, quit() is still called and
\* the session does not stay connected and unreleased.
C2_QuitWhenEnterFails ==
    (last.op = "__enter__" /\ last.exc # "none")
        => (quits > last.quits0 /\ conn # "open")

\* C3: a cwd(d) that raises nothing leaves the working directory at
\* <directory before the call>/<sanitized d>/<four-digit year>, and it has sent MKD
\* for a name only where the directory current at that moment had no such directory.
C3_CwdLandsInYearDir ==
    (last.op = "cwd" /\ last.exc = "none") =>
        LET y == current_year_str(year)
        IN  /\ Len(y) = 4
            /\ wd = last.wd0 \o <<last.checked, y>>
            /\ \A i \in Sent("MKD") :
                   LET at == IF CwdsBefore(i) = 0 THEN last.wd0
                             ELSE last.wd0 \o <<last.checked>>
                   IN  at \o <<last.calls[i].arg>> \notin last.dirs0
            /\ {last.wd0 \o <<last.checked>>, last.wd0 \o <<last.checked, y>>} \subseteq dirs

\* a successful cwd from a directory below the root, with a name that had to be
\* sanitized, that created both directories
C3_Witness ==
    /\ last.op = "cwd" /\ last.exc = "none"
    /\ last.wd0 # <<>>
    /\ last.checked # last.target_dir
    /\ Cardinality(Sent("MKD")) = 2

\* the place in the sanitized name of the i-th character of d: the characters of
\* the class and the starts of the runs outside it, counted up to i
Place(d, i) ==
    Cardinality({j \in 1..i : InClass(d[j]) \/ j = 1 \/ InClass(d[j - 1])})

\* every MKD and CWD of the last call carries the sanitized name or the year
OnlySanitizedSent ==
    \A i \in Sent("MKD") \cup Sent("CWD") :
        last.calls[i].arg \in {last.checked, current_year_str(year)}

\* C4 as claimed: cwd replaces each character outside [0-9A-Za-z_] by one '_', so
\* that the sanitized name is as long as the argument, and sends nothing else.
C4_OneUnderscorePerCharacter ==
    last.op = "cwd" =>
        /\ Len(last.checked) = Len(last.target_dir)
        /\ \A i \in DOMAIN last.target_dir :
               last.checked[i] = IF InClass(last.target_dir[i])
                                 THEN last.target_dir[i] ELSE "_"
        /\ OnlySanitizedSent

\* C4 as amended: cwd replaces each maximal run of characters outside
\* [0-9A-Za-z_] by one '_' and keeps the other characters in their order, and
\* every MKD and CWD it sends carries that sanitized name or the year string.
C4_OneUnderscorePerRun ==
    last.op = "cwd" =>
        LET d == last.target_dir
        IN  /\ Len(last.checked) = Place(d, Len(d))
            /\ \A i \in DOMAIN d :
                   last.checked[Place(d, i)] = IF InClass(d[i]) THEN d[i] ELSE "_"
            /\ OnlySanitizedSent

\* a cwd whose argument holds a run of two characters to replace, sent as one '_'
C4_Witness ==
    /\ last.op = "cwd"
    /\ \E i \in 1..(Len(last.target_dir) - 1) :
           ~InClass(last.target_dir[i]) /\ ~InClass(last.target_dir[i + 1])
    /\ Len(last.checked) < Len(last.target_dir)
    /\ \E i \in Sent("MKD") : last.calls[i].arg = last.checked

\* C5: upload_file of an existing local file with overwrite=False, when the listing
\* shows a file of the resolved name up to letter case, raises
\* FTPFileExistsOnServer, sends no STOR and leaves the remote files as they were.
C5_NoOverwriteRejects ==
    ( /\ last.op = "upload_file" /\ isfile(last.file) /\ ~last.overwrite
      /\ ~(last.calls # <<>> /\ last.calls[1].cmd = "LIST" /\ ~last.calls[1].ok)
      /\ Listed(last.files0, last.wd0, LastTarget) )
        => /\ last.exc = "FTPFileExistsOnServer"
           /\ Sent("STOR") = {}
           /\ files = last.files0

\* an upload refused for a remote file whose name differs in letter case alone
C5_Witness ==
    /\ last.op = "upload_file" /\ ~last.overwrite
    /\ last.exc = "FTPFileExistsOnServer"
    /\ LastTarget \notin ChildNames(last.files0, last.wd0)

\* C6: when STOR was accepted and the listing taken afterwards shows no file of the
\* resolved name, upload_file raises FTPUploadFailed with the raw response of the
\* transfer; when the listing shows it, upload_file returns normally.
C6_UploadVerified ==
    last.op = "upload_file" =>
        \A i \in Sent("STOR") : last.calls[i].ok =>
            /\ Len(last.calls) = i + 1
            /\ last.calls[i + 1].cmd = "LIST"
            /\ last.calls[i + 1].ok =>
                   IF Listed(files, wd, LastTarget)
                   THEN last.exc = "none"
                   ELSE last.exc = "FTPUploadFailed" /\ last.excArg = last.resp

\* an accepted transfer after which the file is missing, reported with the response
C6_Witness ==
    /\ last.op = "upload_file"
    /\ \E i \in Sent("STOR") : last.calls[i].ok
    /\ last.exc = "FTPUploadFailed"
    /\ last.excArg = "250 OK"

\* C7: upload_file of a local path that is no regular file raises the error of the
\* missing local file (ValueError in this code) before any FTP command is sent,
\* whatever overwrite and target_filename are, and changes nothing.
C7_LocalCheckFirst ==
    (last.op = "upload_file" /\ ~isfile(last.file))
        => /\ last.exc = "ValueError"
           /\ last.calls = <<>>
           /\ wd = last.wd0 /\ dirs = last.dirs0 /\ files = last.files0
           /\ conn = last.conn0

\* an upload of a missing local file with overwrite=False and a target name
C7_Witness ==
    /\ last.op = "upload_file" /\ ~isfile(last.file)
    /\ ~last.overwrite /\ last.target_filename = <<"A">>
    /\ last.exc = "ValueError"

\* C8: get_size on a file whose size the server declines to report (a 5xx answer to
\* SIZE) returns None and raises nothing.
C8_DeclinedSizeIsNone ==
    ( /\ last.op = "get_size"
      /\ Len(last.calls) = 2
      /\ last.reply.code \div 100 = 5 )
        => (last.exc = "none" /\ last.ret.none)

\* C9: the constructor fails with FTPCannotConnectError both when the name is not
\* resolved and when the connection is not made, and no session object results.
C9_ConnectErrorOnly ==
    (last.op = "__init__" /\ last.reply # "ok")
        => (last.exc = "FTPCannotConnectError" /\ obj = "none")

\* C10: when cwd raises FTPError, the working directory is the one before the call
\* if no CWD was accepted and the sanitized directory if one was, never the year
\* directory, and the directories created before the rejection are still there.
C10_CwdNotAtomic ==
    (last.op = "cwd" /\ last.exc = "FTPError") =>
        LET n == CwdsBefore(Len(last.calls) + 1)
            base == last.wd0 \o <<last.checked>>
        IN  /\ last.calls # <<>> /\ ~last.calls[Len(last.calls)].ok
            /\ n \in {0, 1}
            /\ n = 0 => wd = last.wd0
            /\ n = 1 => wd = base
            /\ wd # base \o <<current_year_str(year)>>
            /\ last.dirs0 \subseteq dirs
            /\ \A i \in Sent("MKD") : last.calls[i].ok =>
                   (IF CwdsBefore(i) = 0 THEN last.wd0 ELSE base)
                       \o <<last.calls[i].arg>> \in dirs

\* a cwd that created and entered the sanitized directory and was then rejected
C10_Witness ==
    /\ last.op = "cwd" /\ last.exc = "FTPError"
    /\ wd = last.wd0 \o <<last.checked>>
    /\ wd # last.wd0
    /\ \E i \in Sent("MKD") : last.calls[i].ok

====
